---- MODULE Spec2Model ----
(***************************************************************************)
(* Model of the powdergame renderer: the field-to-mesh derivation          *)
(* (createVertexIndices / readMarch), the orbit camera state updated by    *)
(* the mousemove listener, the image-load gate (imageIsLoaded) and the     *)
(* self-rescheduling draw loop.                                            *)
(*                                                                         *)
(* The repository holds four renderer variants; the model carries the one  *)
(* in use as the variable `variant`:                                       *)
(*   "quads"     src/src/render.ts:1-458     indexed quad particles        *)
(*   "raymarch"  src/src/render.ts:460-830   full-surface pass (webgl)     *)
(*   "raymarch2" src/src/render.ts:832-1111  full-surface pass (webgl2)    *)
(*   "points"    src/unnamed/part_001        point sprites from the field  *)
(*                                                                         *)
(* Angles are fixed-point numbers in micro-radians: 1/50 rad = 20000 and   *)
(* Math.PI / 2.5 = 1256637.  Each JavaScript callback runs to completion,  *)
(* so each handler is one action.                                          *)
(***************************************************************************)
EXTENDS Integers, Sequences, FiniteSets, TLC

VARIABLES
  variant,        \* which renderer variant runs
  pc,             \* "init" | "running" | "returned" | "thrown" | "building"
  sdf,            \* the scalar field returned by wasm.march(), flat, 0-based
  build,          \* createVertexIndices: loop counters and output arrays
  render,         \* state.render: camera fields, imageIsLoaded, numParticles
  loadState,      \* the Image: "idle" | "loading" | "loaded" | "failed"
  pendingFrames,  \* callbacks queued by window.requestAnimationFrame
  lastTick,       \* the most recent run of draw(): gate seen, calls made
  everDrew,       \* some run of draw() has issued a draw call
  alerts,         \* diagnostics raised through alert()
  event,          \* page coordinates of the pointer event handled last
  setup,          \* the steps render() took, in order
  last            \* the callback that ran last

vars == <<variant, pc, sdf, build, render, loadState, pendingFrames,
          lastTick, everDrew, alerts, event, setup, last>>

----------------------------------------------------------------------------
(* Bounds *)

\* grid edge scanned by createVertexIndices (64 in the source)
size == 2
\* field values range over -1..MaxVal
MaxVal == 1
\* pointer coordinates are k * PageStep for k in 0..MaxPage
MaxPage == 2
PageStep == 80
\* in the double-precision loop pointer coordinates are k * PxStep for k in
\* 0..MaxPx
MaxPx == 3
PxStep == 5

----------------------------------------------------------------------------
(* Program constants *)

\* (e.pageY - lastMouseY) / 50, in micro-radians per pixel
PerPixel == 20000
\* Math.PI / 2.5, in micro-radians
XLimit == 1256637
\* centerOffsets.push(z / 8)
zScale == 8
\* the divisor of `(e.pageX - state.render.lastMouseX) / 50`
PixelsPerRadian == 50
\* significand bits of a JavaScript number (IEEE-754 binary64)
DoubleBits == 53
\* `let size = 64` of createVertexIndices
gridSize == 64
\* number of values of an element of a Uint16Array
Uint16Modulus == 65536
\* `let size = 128` of readSdf
sdfSize == 128
numParticlesQuads == 200
numParticlesPoints == 10500
\* vertexCount of the full-surface variants
vertexCount == 6
\* 1.0 in the fixed-point entries of matrices and vectors
One == 1000
\* the camera's height 0.25 over the orbit center
OrbitHeight == 250
\* Math.PI, in micro-radians
PiMicro == 3141593

Variants == {"quads", "raymarch", "raymarch2", "points"}

Min(a, b) == IF a < b THEN a ELSE b
Max(a, b) == IF a > b THEN a ELSE b

----------------------------------------------------------------------------
(* Field sampling and mesh construction (src/unnamed/part_001) *)

Cells == 0 .. (size * size - 1)
Values == -1 .. MaxVal
Fields == [Cells -> Values]

\* variation: the z stride written as size instead of size * size
readMarchIndexFlatZ(sz, x, y, z) == x + y * sz + z * sz

\* x_index + y_index + z_index of readMarch
readMarchIndex(sz, x, y, z) == x + y * sz + z * sz * sz

readMarch(s, sz, x, y, z) == s[readMarchIndex(sz, x, y, z)]

\* readSdf: the same arithmetic with its own fixed size
readSdfIndex(x, y, z) == x + y * sdfSize + z * sdfSize * sdfSize

readSdf(s, x, y, z) == s[readSdfIndex(x, y, z)]

triCornersCycle == <<-1, -1, 1, -1, 1, 1, -1, 1>>
texCoordsCycle == <<0, 0, 1, 0, 1, 1, 0, 1>>

\* a quotient a / b kept as the pair <<a, b>>
Frac(a, b) == <<a, b>>

InitBuild ==
  [x |-> 0, y |-> 0, i |-> 0,
   triCorners |-> <<>>, texCoords |-> <<>>,
   centerOffsets |-> <<>>, vertexIndices |-> <<>>]

\* variation: the test written `z >= 0.0`
ActiveNonNegative(z) == z >= 0

\* the test `z > 0.0` that decides whether a cell emits a quad
Active(z) == z > 0

\* variation: eight index values reserved per cell
QuadIndicesWide(i) == [k \in 1..6 |-> <<0, 1, 2, 0, 2, 3>>[k] + 8 * i]

\* [0, 1, 2, 0, 2, 3].map(num => num + 4 * i)
QuadIndices(i) == [k \in 1..6 |-> <<0, 1, 2, 0, 2, 3>>[k] + 4 * i]

\* variation: the `j` loop pushes the center offset on three passes only
EmitQuadThreeCenters(b, z) ==
  LET c == <<Frac(b.x, size), Frac(b.y, size), Frac(z, zScale)>>
  IN [b EXCEPT
        !.triCorners = b.triCorners \o triCornersCycle,
        !.texCoords = b.texCoords \o texCoordsCycle,
        !.centerOffsets = b.centerOffsets \o c \o c \o c,
        !.vertexIndices = b.vertexIndices \o QuadIndices(b.i)]

\* the four passes of the `j` loop: 8 corner floats, 8 texture floats and
\* 4 copies of the center offset
EmitQuad(b, z) ==
  LET c == <<Frac(b.x, size), Frac(b.y, size), Frac(z, zScale)>>
  IN [b EXCEPT
        !.triCorners = b.triCorners \o triCornersCycle,
        !.texCoords = b.texCoords \o texCoordsCycle,
        !.centerOffsets = b.centerOffsets \o c \o c \o c \o c,
        !.vertexIndices = b.vertexIndices \o QuadIndices(b.i)]

\* variation: y is the outer loop and x the inner one
ScanStepYOuter(s, b) ==
  LET z == readMarch(s, size, b.x, b.y, 0)
      e == IF Active(z) THEN EmitQuad(b, z) ELSE b
  IN [e EXCEPT
        !.i = b.i + 1,
        !.x = IF b.x + 1 < size THEN b.x + 1
              ELSE IF b.y + 1 < size THEN 0 ELSE size,
        !.y = IF b.x + 1 < size THEN b.y
              ELSE IF b.y + 1 < size THEN b.y + 1 ELSE 0]

\* one pass of the inner loop body, followed by the loop increments
ScanStep(s, b) ==
  LET z == readMarch(s, size, b.x, b.y, 0)
      e == IF Active(z) THEN EmitQuad(b, z) ELSE b
  IN [e EXCEPT
        !.i = b.i + 1,
        !.y = IF b.y + 1 < size THEN b.y + 1 ELSE 0,
        !.x = IF b.y + 1 < size THEN b.x ELSE b.x + 1]

\* variation: the outer loop written `x <= size`
BuildDoneLate(b) == b.x > size

BuildDone(b) == b.x >= size

\* new Uint16Array(v): each element kept modulo 2^16
Uint16Array(v) == [k \in DOMAIN v |-> v[k] % Uint16Modulus]

RECURSIVE RunBuild(_, _)
RunBuild(s, b) == IF BuildDone(b) THEN b ELSE RunBuild(s, ScanStep(s, b))

createVertexIndices(s) == RunBuild(s, InitBuild)

\* variation: the loop stops after half of the particles
createVertexIndicesQuadsHalf(n) ==
  LET c == <<Frac("random", 3), Frac("random", 10), Frac("random", 3)>>
      h == n \div 2
  IN [x |-> 0, y |-> 0, i |-> h,
      triCorners |-> [k \in 1..(8 * h) |-> triCornersCycle[((k - 1) % 8) + 1]],
      texCoords |-> [k \in 1..(8 * h) |-> texCoordsCycle[((k - 1) % 8) + 1]],
      centerOffsets |-> [k \in 1..(12 * h) |-> c[((k - 1) % 3) + 1]],
      vertexIndices |-> [k \in 1..(6 * h) |-> QuadIndices((k - 1) \div 6)[((k - 1) % 6) + 1]]]

\* createVertexIndices(numParticles) of the indexed-quad variant: the loop
\* emits one quad per particle i in 0..n-1, at a random center offset
createVertexIndicesQuads(n) ==
  LET c == <<Frac("random", 3), Frac("random", 10), Frac("random", 3)>>
  IN [x |-> 0, y |-> 0, i |-> n,
      triCorners |-> [k \in 1..(8 * n) |-> triCornersCycle[((k - 1) % 8) + 1]],
      texCoords |-> [k \in 1..(8 * n) |-> texCoordsCycle[((k - 1) % 8) + 1]],
      centerOffsets |-> [k \in 1..(12 * n) |-> c[((k - 1) % 3) + 1]],
      vertexIndices |->
        [k \in 1..(6 * n) |-> QuadIndices((k - 1) \div 6)[((k - 1) % 6) + 1]]]

----------------------------------------------------------------------------
(* View matrix (createCameraUniform).  Matrices are gl-matrix mat4 values:  *)
(* 16 entries, column-major, index 0..15; entries and lengths are fixed-    *)
(* point with One = 1.0.  Sines and cosines are truncated power series,     *)
(* exact at angle 0.                                                        *)

Abs(a) == IF a < 0 THEN -a ELSE a

\* the angle brought into [-pi, pi), in micro-radians
Reduce(a) == ((a + PiMicro) % (2 * PiMicro)) - PiMicro

\* m - m^3/3! + m^5/5! - m^7/7! in nested form, m in milli-radians
SinSeries(m) ==
  LET m2 == (m * m) \div One
      t3 == One - m2 \div 42
      t2 == One - (m2 * t3) \div (20 * One)
      t1 == One - (m2 * t2) \div (6 * One)
  IN (m * t1) \div One

\* 1 - m^2/2! + m^4/4! - m^6/6! + m^8/8! in nested form
CosSeries(m) ==
  LET m2 == (m * m) \div One
      t4 == One - m2 \div 56
      t3 == One - (m2 * t4) \div (30 * One)
      t2 == One - (m2 * t3) \div (12 * One)
  IN One - (m2 * t2) \div (2 * One)

\* F applied to the value of x, x being evaluated once
With(x, F(_)) == CHOOSE v \in {F(y) : y \in {x}} : TRUE

\* sine and cosine of an angle r in [-pi, pi), folded into [0, pi/2]
SinReduced(r) ==
  LET f == IF 2 * Abs(r) > PiMicro THEN PiMicro - Abs(r) ELSE Abs(r)
      v == With(f \div 1000, SinSeries)
  IN IF r < 0 THEN -v ELSE v

CosReduced(r) ==
  IF 2 * Abs(r) > PiMicro
  THEN -With((PiMicro - Abs(r)) \div 1000, CosSeries)
  ELSE With(Abs(r) \div 1000, CosSeries)

\* Math.sin and Math.cos of an angle in micro-radians
Sin(a) == With(Reduce(a), SinReduced)

Cos(a) == With(Reduce(a), CosReduced)

mat4create == [k \in 0..15 |-> IF k \in {0, 5, 10, 15} THEN One ELSE 0]

\* mat4.multiply(out, a, b): out = a * b
\* (each operand is evaluated once, then indexed)
mat4multiply(a, b) ==
  CHOOSE out \in
    {[k \in 0..15 |->
        LET row == k % 4
            col == k \div 4
        IN (m[row] * n[4 * col] + m[4 + row] * n[4 * col + 1]
              + m[8 + row] * n[4 * col + 2] + m[12 + row] * n[4 * col + 3]) \div One]
       : m \in {a}, n \in {b}} : TRUE

\* mat4.translate(out, a, v): out = a * T(v)
mat4translate(a, v) ==
  mat4multiply(a, [mat4create EXCEPT ![12] = v[1], ![13] = v[2], ![14] = v[3]])

\* mat4.rotateX(out, a, rad): out = a * Rx(rad)
mat4rotateX(a, rad) ==
  mat4multiply(a, [mat4create EXCEPT ![5] = Cos(rad), ![6] = Sin(rad),
                                       ![9] = -Sin(rad), ![10] = Cos(rad)])

\* mat4.rotateY(out, a, rad): out = a * Ry(rad)
mat4rotateY(a, rad) ==
  mat4multiply(a, [mat4create EXCEPT ![0] = Cos(rad), ![2] = -Sin(rad),
                                       ![8] = Sin(rad), ![10] = Cos(rad)])

\* [m[12], m[13], m[14]]: the translation column (the operand is
\* evaluated once, then indexed)
translationOf(a) == CHOOSE v \in {<<m[12], m[13], m[14]>> : m \in {a}} : TRUE

\* mat4.lookAt(out, eye, center, up), kept by its arguments
mat4lookAt(eye, center, up) == [eye |-> eye, center |-> center, up |-> up]

\* variation: the camera position is read from the fourth row
createCameraUniformRow(xRotation, yRotation, redFirePos) ==
  LET t == mat4translate(mat4create, <<0, OrbitHeight, One>>)
      xAxisRotation == mat4rotateX(mat4create, -xRotation)
      yAxisRotation == mat4rotateY(mat4create, yRotation)
      camera == mat4multiply(yAxisRotation, mat4multiply(xAxisRotation, t))
  IN mat4lookAt(<<camera[3], camera[7], camera[11]>>, redFirePos, <<0, One, 0>>)

createCameraUniform(xRotation, yRotation, redFirePos) ==
  LET t == mat4translate(mat4create, <<0, OrbitHeight, One>>)
      xAxisRotation == mat4rotateX(mat4create, -xRotation)
      yAxisRotation == mat4rotateY(mat4create, yRotation)
      camera == mat4multiply(yAxisRotation, mat4multiply(xAxisRotation, t))
      cameraPos == translationOf(camera)
  IN mat4lookAt(cameraPos, redFirePos, <<0, One, 0>>)

----------------------------------------------------------------------------
(* Camera state, gate and frame loop *)

Pages == {k * PageStep : k \in 0..MaxPage}

\* variation: the state record starts with imageIsLoaded: true
InitialRenderStateLoaded(v) ==
  [xRotation |-> 0, yRotation |-> 0, imageIsLoaded |-> TRUE,
   numParticles |-> IF v = "quads" THEN numParticlesQuads
                    ELSE IF v = "points" THEN numParticlesPoints ELSE 0,
   redFirePos |-> <<0, 0, 0>>,
   lastMouseX |-> 0, lastMouseY |-> 0]

\* the `render` part of the state record
InitialRenderState(v) ==
  [xRotation |-> 0, yRotation |-> 0, imageIsLoaded |-> FALSE,
   numParticles |-> IF v = "quads" THEN numParticlesQuads
                    ELSE IF v = "points" THEN numParticlesPoints ELSE 0,
   redFirePos |-> <<0, 0, 0>>,
   lastMouseX |-> 0, lastMouseY |-> 0]

\* variation: the listener stores a fresh record for the camera fields
mousemoveFreshState(r, pageX, pageY) ==
  LET x1 == r.xRotation + (pageY - r.lastMouseY) * PerPixel
      y1 == r.yRotation - (pageX - r.lastMouseX) * PerPixel
      x2 == Min(x1, XLimit)
      x3 == Max(x2, -XLimit)
  IN [xRotation |-> x3, yRotation |-> y1, imageIsLoaded |-> FALSE,
      numParticles |-> r.numParticles, redFirePos |-> r.redFirePos,
      lastMouseX |-> pageX, lastMouseY |-> pageY]

\* variation: the clamp runs before the accumulation
mousemoveClampFirst(r, pageX, pageY) ==
  LET x1 == Max(Min(r.xRotation, XLimit), -XLimit)
      x2 == x1 + (pageY - r.lastMouseY) * PerPixel
      y1 == r.yRotation - (pageX - r.lastMouseX) * PerPixel
  IN [r EXCEPT !.xRotation = x2, !.yRotation = y1,
               !.lastMouseX = pageX, !.lastMouseY = pageY]

\* variation: yRotation is clamped like xRotation
mousemoveClampBoth(r, pageX, pageY) ==
  LET x1 == r.xRotation + (pageY - r.lastMouseY) * PerPixel
      y1 == r.yRotation - (pageX - r.lastMouseX) * PerPixel
  IN [r EXCEPT !.xRotation = Max(Min(x1, XLimit), -XLimit),
               !.yRotation = Max(Min(y1, XLimit), -XLimit),
               !.lastMouseX = pageX, !.lastMouseY = pageY]

\* variation: the last-pointer fields are stored before the deltas are taken
mousemoveStoreFirst(r, pageX, pageY) ==
  LET x1 == r.xRotation + (pageY - pageY) * PerPixel
      y1 == r.yRotation - (pageX - pageX) * PerPixel
      x2 == Min(x1, XLimit)
      x3 == Max(x2, -XLimit)
  IN [r EXCEPT !.xRotation = x3, !.yRotation = y1,
               !.lastMouseX = pageX, !.lastMouseY = pageY]

\* variation: the listener returns early while the image is not loaded
mousemoveGated(r, pageX, pageY) ==
  IF ~r.imageIsLoaded THEN r
  ELSE
    LET x1 == r.xRotation + (pageY - r.lastMouseY) * PerPixel
        y1 == r.yRotation - (pageX - r.lastMouseX) * PerPixel
        x2 == Min(x1, XLimit)
        x3 == Max(x2, -XLimit)
    IN [r EXCEPT !.xRotation = x3, !.yRotation = y1,
                 !.lastMouseX = pageX, !.lastMouseY = pageY]

\* the canvas 'mousemove' listener
mousemove(r, pageX, pageY) ==
  LET x1 == r.xRotation + (pageY - r.lastMouseY) * PerPixel
      y1 == r.yRotation - (pageX - r.lastMouseX) * PerPixel
      x2 == Min(x1, XLimit)
      x3 == Max(x2, -XLimit)
  IN [r EXCEPT !.xRotation = x3, !.yRotation = y1,
               !.lastMouseX = pageX, !.lastMouseY = pageY]

\* variation: the load callback uploads the texture but sets no flag
onloadLeavesGate(r) == r

\* variation: the load callback also resets the orbit
onloadResetsCamera(r) ==
  [r EXCEPT !.imageIsLoaded = TRUE, !.xRotation = 0, !.yRotation = 0]

\* fireAtlas.onload / the 'load' listener
onload(r) == [r EXCEPT !.imageIsLoaded = TRUE]

Call(op, arg) == [op |-> op, arg |-> arg]

\* the calls made inside `if (render.imageIsLoaded) { ... }`
DrawBody(v, r) ==
  CASE v = "quads" ->
         << Call("clear", <<>>), Call("useProgram", <<>>),
            Call("uniformMatrix4fv",
                 <<createCameraUniform(r.xRotation, r.yRotation, r.redFirePos)>>),
            Call("uniform3fv", <<>>),
            Call("drawElements", <<r.numParticles * 6>>) >>
    [] v = "points" ->
         << Call("clear", <<>>), Call("useProgram", <<>>),
            Call("uniformMatrix4fv",
                 <<createCameraUniform(r.xRotation, r.yRotation, r.redFirePos)>>),
            Call("uniform3fv", <<>>),
            Call("drawArrays", <<r.numParticles>>) >>
    [] v = "raymarch" ->
         << Call("clear", <<>>), Call("useProgram", <<>>),
            Call("bindBuffer", <<>>), Call("vertexAttribPointer", <<>>),
            Call("enableVertexAttribArray", <<>>),
            Call("drawArrays", <<vertexCount>>) >>
    [] v = "raymarch2" ->
         << Call("clear", <<>>), Call("useProgram", <<>>),
            Call("bindBuffer", <<>>), Call("vertexAttribPointer", <<>>),
            Call("enableVertexAttribArray", <<>>),
            Call("uniform1i", <<>>), Call("activeTexture", <<>>),
            Call("bindTexture", <<>>),
            Call("uniform3fv", <<>>), Call("uniform3fv", <<>>),
            Call("drawArrays", <<vertexCount>>) >>

\* what draw() does before it tests the gate
DrawPrologue(v) ==
  IF v = "quads"
  THEN << Call("calculate_sdf", <<>>), Call("console.log", <<>>) >>
  ELSE << >>

\* variation: the body runs whatever the gate says
drawUngated(v, r) ==
  DrawPrologue(v) \o DrawBody(v, r) \o << Call("requestAnimationFrame", <<>>) >>

\* variation: the second flame of the commented-out block is drawn too
drawSecondFlame(v, r) ==
  DrawPrologue(v)
    \o (IF r.imageIsLoaded
        THEN DrawBody(v, r)
               \o << Call("uniform3fv", <<>>), Call("drawElements", <<r.numParticles * 6>>) >>
        ELSE << >>)
    \o << Call("requestAnimationFrame", <<>>) >>

\* variation: the next frame is requested inside the gated block
drawRescheduleInsideGate(v, r) ==
  DrawPrologue(v)
    \o (IF r.imageIsLoaded
        THEN DrawBody(v, r) \o << Call("requestAnimationFrame", <<>>) >>
        ELSE << >>)

\* variation: every frame rebuilds the mesh and its buffers
drawRebuildsMesh(v, r) ==
  DrawPrologue(v)
    \o (IF r.imageIsLoaded
        THEN << Call("createVertexIndices", <<>>), Call("bufferData", <<>>) >>
               \o DrawBody(v, r)
        ELSE << >>)
    \o << Call("requestAnimationFrame", <<>>) >>

\* variation: the next frame is requested at the top of draw()
drawScheduleFirst(v, r) ==
  << Call("requestAnimationFrame", <<>>) >>
    \o DrawPrologue(v)
    \o (IF r.imageIsLoaded THEN DrawBody(v, r) ELSE << >>)

\* one run of draw(state, gl): the calls it makes, in order
draw(v, r) ==
  DrawPrologue(v)
    \o (IF r.imageIsLoaded THEN DrawBody(v, r) ELSE << >>)
    \o << Call("requestAnimationFrame", <<>>) >>

DrawOps == {"drawElements", "drawArrays"}
UniformOps == {"uniformMatrix4fv", "uniform3fv", "uniform1i"}

CountOps(calls, ops) == Cardinality({k \in 1..Len(calls) : calls[k].op \in ops})

NoTick == [loaded |-> FALSE, calls |-> << >>]

----------------------------------------------------------------------------
(* Startup: context, shaders, program *)

\* loadShader: a shader that does not compile is reported and dropped
loadShader(compileOk) ==
  IF compileOk THEN [shader |-> "shader", alerts |-> {}]
  ELSE [shader |-> "null", alerts |-> {"compile"}]

\* variation: a null shader is attached without a check
initShaderProgramNoShaderCheck(compileOk, linkOk) ==
  LET vs == loadShader(compileOk)
  IN IF ~linkOk
     THEN [result |-> "null", alerts |-> vs.alerts \cup {"link"}]
     ELSE [result |-> "program", alerts |-> vs.alerts]

\* initShaderProgram of render.ts: throws on a missing shader, reports a
\* link failure and returns null
initShaderProgram(compileOk, linkOk) ==
  LET vs == loadShader(compileOk)
  IN IF vs.shader = "null"
     THEN [result |-> "throw", alerts |-> vs.alerts]
     ELSE IF ~linkOk
          THEN [result |-> "null", alerts |-> vs.alerts \cup {"link"}]
          ELSE [result |-> "program", alerts |-> vs.alerts]

\* initShaderProgram of ./glutil, which the full-surface variants import:
\* a failure is reported and no program is returned
glutilInitShaderProgram(compileOk, linkOk) ==
  IF ~compileOk THEN [result |-> "null", alerts |-> {"compile"}]
  ELSE IF ~linkOk THEN [result |-> "null", alerts |-> {"link"}]
  ELSE [result |-> "program", alerts |-> {}]

\* the part of render() that can end it early: how it ends and what it
\* reports.  The point-sprite variant is handed its context.
renderSetup(v, ctxOk, compileOk, linkOk) ==
  IF v # "points" /\ ~ctxOk
  THEN [end |-> "returned", alerts |-> {"nocontext"}]
  ELSE LET p == IF v \in {"quads", "points"}
                THEN initShaderProgram(compileOk, linkOk)
                ELSE glutilInitShaderProgram(compileOk, linkOk)
       IN IF p.result = "program"
          THEN [end |-> "running", alerts |-> p.alerts]
          ELSE [end |-> "thrown", alerts |-> p.alerts]

\* variation: the first draw() is called before the mesh is built
renderStepsDrawFirst(v) ==
  CASE v = "quads" ->
         << "getContext", "initShaderProgram", "state", "onload", "src", "draw",
            "createVertexIndices", "bufferData", "bufferData", "bufferData",
            "bufferData", "mousemove" >>
    [] v = "points" ->
         << "initShaderProgram", "march", "createDataTexture", "state",
            "onload", "src", "draw", "createVertexIndices", "bufferData",
            "bufferData", "bufferData", "bufferData" >>
    [] v = "raymarch" ->
         << "getContext", "initShaderProgram", "initBuffers", "initUvBuffer",
            "march", "createDataTexture", "state", "onload", "src",
            "mousemove", "draw" >>
    [] v = "raymarch2" ->
         << "getContext", "initShaderProgram", "initBuffers", "create_sdf",
            "createDataTexture", "onload", "src", "state", "mousemove",
            "draw" >>

\* the statements of a render() that runs to its end, in source order:
\* "state" creates the state record, "onload" registers the load callback,
\* "src" starts the image load, "mousemove" registers the pointer listener,
\* "draw" is the first, synchronous call of draw()
renderSteps(v) ==
  CASE v = "quads" ->
         << "getContext", "initShaderProgram", "state", "onload", "src",
            "createVertexIndices", "bufferData", "bufferData", "bufferData",
            "bufferData", "mousemove", "draw" >>
    [] v = "points" ->
         << "initShaderProgram", "march", "createDataTexture", "state",
            "onload", "src", "createVertexIndices", "bufferData",
            "bufferData", "bufferData", "bufferData", "draw" >>
    [] v = "raymarch" ->
         << "getContext", "initShaderProgram", "initBuffers", "initUvBuffer",
            "march", "createDataTexture", "state", "onload", "src",
            "mousemove", "draw" >>
    [] v = "raymarch2" ->
         << "getContext", "initShaderProgram", "initBuffers", "create_sdf",
            "createDataTexture", "onload", "src", "state", "mousemove",
            "draw" >>

----------------------------------------------------------------------------
(* Actions of the running page *)

Init ==
  /\ variant \in Variants
  /\ pc = "init"
  /\ sdf \in {[c \in Cells |-> IF c % 2 = p THEN 1 ELSE t] : p \in 0..1, t \in {-1, 1}}
  /\ build = InitBuild
  /\ render = InitialRenderState(variant)
  /\ loadState = "idle"
  /\ pendingFrames = 0
  /\ lastTick = NoTick
  /\ everDrew = FALSE
  /\ alerts = {}
  /\ event = <<0, 0>>
  /\ setup = << >>
  /\ last = "none"

\* the effect of one run of draw() on the scheduler and the tick record
RunDraw(queued) ==
  \E calls \in {draw(variant, render)} :
     /\ lastTick' = [loaded |-> render.imageIsLoaded,
                      calls |-> calls]
     /\ pendingFrames' = queued + CountOps(calls, {"requestAnimationFrame"})
     /\ everDrew' = (everDrew \/ CountOps(calls, DrawOps) > 0)

\* render() runs to its end: state record, image load started, mesh built
\* (point-sprite variant), listener registered, first draw() called
RenderOk ==
  /\ pc = "init"
  /\ \E ctxOk \in BOOLEAN, compileOk \in BOOLEAN, linkOk \in BOOLEAN :
       LET o == renderSetup(variant, ctxOk, compileOk, linkOk)
       IN /\ o.end = "running"
          /\ pc' = o.end
          /\ alerts' = alerts \cup o.alerts
  /\ loadState' = "loading"
  /\ build' = CASE variant = "points" -> createVertexIndices(sdf)
                 [] variant = "quads" -> createVertexIndicesQuads(render.numParticles)
                 [] OTHER -> build
  /\ RunDraw(0)
  /\ last' = "render"
  /\ setup' = renderSteps(variant)
  /\ UNCHANGED <<variant, sdf, render, event>>

\* render() ends early: no context (alert, return), a shader that does not
\* compile or a program that does not link (alert, then throw)
RenderAbort ==
  /\ pc = "init"
  /\ \E ctxOk \in BOOLEAN, compileOk \in BOOLEAN, linkOk \in BOOLEAN :
       LET o == renderSetup(variant, ctxOk, compileOk, linkOk)
       IN /\ o.end # "running"
          /\ pc' = o.end
          /\ alerts' = alerts \cup o.alerts
  /\ last' = "render"
  /\ UNCHANGED <<variant, sdf, build, render, loadState, pendingFrames,
                 lastTick, everDrew, event, setup>>

\* the scheduler runs one queued draw()
Tick ==
  /\ pc = "running"
  /\ pendingFrames > 0
  /\ last' = "tick"
  /\ RunDraw(pendingFrames - 1)
  /\ UNCHANGED <<variant, pc, sdf, build, render, loadState, alerts, event,
                 setup>>

\* a pointer-move event; the point-sprite variant registers no listener
MouseMove ==
  /\ pc = "running"
  /\ variant # "points"
  /\ \E pageX \in Pages, pageY \in Pages :
       /\ render' = mousemove(render, pageX, pageY)
       /\ event' = <<pageX, pageY>>
  /\ last' = "mousemove"
  /\ UNCHANGED <<variant, pc, sdf, build, loadState, pendingFrames,
                 lastTick, everDrew, alerts, setup>>

\* variation: the load callback may run while render() has not finished
LoadCallbackEarly ==
  /\ pc \in {"init", "running"}
  /\ loadState \in {"idle", "loading"}
  /\ loadState' = "loaded"
  /\ render' = onload(render)
  /\ last' = "load"
  /\ UNCHANGED <<variant, pc, sdf, build, pendingFrames, lastTick,
                 everDrew, alerts, event, setup>>

\* the image finished loading: the load callback runs
LoadCallback ==
  /\ pc = "running"
  /\ loadState = "loading"
  /\ loadState' = "loaded"
  /\ render' = onload(render)
  /\ last' = "load"
  /\ UNCHANGED <<variant, pc, sdf, build, pendingFrames, lastTick,
                 everDrew, alerts, event, setup>>

\* variation: an error listener that opens the gate all the same
LoadFailOpensGate ==
  /\ pc = "running"
  /\ loadState = "loading"
  /\ loadState' = "failed"
  /\ render' = onload(render)
  /\ last' = "loaderror"
  /\ UNCHANGED <<variant, pc, sdf, build, pendingFrames, lastTick,
                 everDrew, alerts, event, setup>>

\* the image failed to load: no error listener is registered
LoadFail ==
  /\ pc = "running"
  /\ loadState = "loading"
  /\ loadState' = "failed"
  /\ last' = "loaderror"
  /\ UNCHANGED <<variant, pc, sdf, build, render, pendingFrames, lastTick,
                 everDrew, alerts, event, setup>>

Next ==
  \/ RenderOk
  \/ RenderAbort
  \/ Tick
  \/ MouseMove
  \/ LoadCallback
  \/ LoadFail

Spec == Init /\ [][Next]_vars

----------------------------------------------------------------------------
(* yRotation as the JavaScript number it is.  A number is a sign and a     *)
(* magnitude; the magnitude is a bit vector, least significant bit first,  *)
(* in units of 2^-FracBits, so bit i has weight 2^(i - 1 - FracBits).      *)
(* Every binary64 value of magnitude in [2^-5, 2) is a whole number of     *)
(* these units, and sums and differences of such values are too.  Each     *)
(* operation computes the exact result and rounds it to DoubleBits         *)
(* significant bits, ties to even, as IEEE-754 does.                       *)

FracBits == DoubleBits + 4
Width == FracBits + 1

PxPages == {k * PxStep : k \in 0..MaxPx}

ZeroBits == [i \in 1..Width |-> 0]

DoubleZero == [neg |-> FALSE, mag |-> ZeroBits]

\* exact sum of two magnitudes, carry rippling upwards from bit i
RECURSIVE AddBitsFrom(_, _, _, _)
AddBitsFrom(a, b, i, carry) ==
  IF i > Width THEN << >>
  ELSE LET t == a[i] + b[i] + carry
       IN << t % 2 >> \o AddBitsFrom(a, b, i + 1, t \div 2)

AddBits(a, b) == AddBitsFrom(a, b, 1, 0)

\* exact difference a - b of two magnitudes with a >= b
RECURSIVE SubBitsFrom(_, _, _, _)
SubBitsFrom(a, b, i, borrow) ==
  IF i > Width THEN << >>
  ELSE LET t == a[i] - b[i] - borrow
       IN << (t + 2) % 2 >> \o SubBitsFrom(a, b, i + 1, IF t < 0 THEN 1 ELSE 0)

SubBits(a, b) == SubBitsFrom(a, b, 1, 0)

\* a >= b, decided at the most significant bit where they differ
GeqBits(a, b) ==
  \A i \in 1..Width :
    (a[i] < b[i]) => \E j \in (i + 1)..Width : a[j] > b[j]

\* position of the leading 1, or 0 for the zero magnitude
TopBit(a) ==
  IF a = ZeroBits THEN 0
  ELSE CHOOSE t \in 1..Width : a[t] = 1 /\ \A u \in (t + 1)..Width : a[u] = 0

\* round to nearest, ties to even, keeping DoubleBits significant bits;
\* sticky says that the exact value has a non-zero part below the last bit
RoundBits(a, sticky) ==
  LET drop == TopBit(a) - DoubleBits
  IN IF drop <= 0 THEN a
     ELSE LET half == a[drop] = 1
              low == sticky \/ \E i \in 1..(drop - 1) : a[i] = 1
              odd == a[drop + 1] = 1
              trunc == [i \in 1..Width |-> IF i <= drop THEN 0 ELSE a[i]]
              ulp == [i \in 1..Width |-> IF i = drop + 1 THEN 1 ELSE 0]
          IN IF half /\ (low \/ odd) THEN AddBits(trunc, ulp) ELSE trunc

Signed(neg, mag) == [neg |-> neg /\ mag # ZeroBits, mag |-> mag]

DoubleNeg(x) == Signed(~x.neg, x.mag)

\* x + y
DoubleAdd(x, y) ==
  IF x.neg = y.neg
  THEN Signed(x.neg, RoundBits(AddBits(x.mag, y.mag), FALSE))
  ELSE IF GeqBits(x.mag, y.mag)
       THEN Signed(x.neg, RoundBits(SubBits(x.mag, y.mag), FALSE))
       ELSE Signed(y.neg, RoundBits(SubBits(y.mag, x.mag), FALSE))

\* x - y
DoubleSub(x, y) == DoubleAdd(x, DoubleNeg(y))

\* the bits of r / d below the binary point, most significant first, by
\* long division (r < d)
RECURSIVE QuotientBits(_, _, _)
QuotientBits(r, d, j) ==
  IF j > FracBits THEN << >>
  ELSE << (2 * r) \div d >> \o QuotientBits((2 * r) % d, d, j + 1)

\* the remainder left by that division
RECURSIVE QuotientRest(_, _, _)
QuotientRest(r, d, j) ==
  IF j > FracBits THEN r ELSE QuotientRest((2 * r) % d, d, j + 1)

\* n / d for integers n and d with d > 0 and |n| < 2 * d
DoubleDiv(n, d) ==
  LET q == QuotientBits(Abs(n) % d, d, 1)
  IN Signed(n < 0,
            RoundBits([i \in 1..Width |->
                         IF i = Width THEN Abs(n) \div d ELSE q[Width - i]],
                      QuotientRest(Abs(n) % d, d, 1) # 0))

\* the 'mousemove' listener with yRotation held as a number; the other
\* fields are those mousemove computes
mousemoveDouble(r, pageX, pageY) ==
  [mousemove([r EXCEPT !.yRotation = 0], pageX, pageY)
     EXCEPT !.yRotation =
       DoubleSub(r.yRotation, DoubleDiv(pageX - r.lastMouseX, PixelsPerRadian))]

\* the state render() leaves behind in a variant that registers the
\* listener, with `yRotation: 0` of the state record held as a number; the
\* image is still loading
InitDouble ==
  /\ variant \in Variants \ {"points"}
  /\ pc = "running"
  /\ sdf = [c \in Cells |-> IF c % 2 = 0 THEN 1 ELSE -1]
  /\ build = IF variant = "quads"
             THEN createVertexIndicesQuads(numParticlesQuads)
             ELSE InitBuild
  /\ render = [InitialRenderState(variant) EXCEPT !.yRotation = DoubleZero]
  /\ loadState = "loading"
  /\ pendingFrames = 1
  /\ lastTick = [loaded |-> FALSE,
                 calls |-> draw(variant, InitialRenderState(variant))]
  /\ everDrew = FALSE
  /\ alerts = {}
  /\ event = <<0, 0>>
  /\ setup = renderSteps(variant)
  /\ last = "render"

MouseMoveDouble ==
  /\ pc = "running"
  /\ \E pageX \in PxPages, pageY \in PxPages :
       /\ render' = mousemoveDouble(render, pageX, pageY)
       /\ event' = <<pageX, pageY>>
  /\ last' = "mousemove"
  /\ UNCHANGED <<variant, pc, sdf, build, loadState, pendingFrames,
                 lastTick, everDrew, alerts, setup>>

NextDouble ==
  \/ MouseMoveDouble
  \/ Tick

SpecDouble == InitDouble /\ [][NextDouble]_vars

----------------------------------------------------------------------------
(* The mesh build on its own, one loop pass per step, over every field *)

InitMesh ==
  /\ variant = "points"
  /\ pc = "building"
  /\ sdf \in Fields
  /\ build = InitBuild
  /\ render = InitialRenderState("points")
  /\ loadState = "idle"
  /\ pendingFrames = 0
  /\ lastTick = NoTick
  /\ everDrew = FALSE
  /\ alerts = {}
  /\ event = <<0, 0>>
  /\ setup = << >>
  /\ last = "none"

ScanCell ==
  /\ pc = "building"
  /\ ~BuildDone(build)
  /\ build' = ScanStep(sdf, build)
  /\ UNCHANGED <<variant, pc, sdf, render, loadState, pendingFrames,
                 lastTick, everDrew, alerts, event, setup, last>>

NextMesh == ScanCell

SpecMesh == InitMesh /\ [][NextMesh]_vars

FairSpec == Init /\ [][Next]_vars /\ WF_vars(Tick)

----------------------------------------------------------------------------
(* Properties of the mesh build (checked under SpecMesh) *)

\* quads emitted so far: four vertices, eight corner floats, per quad
EmittedQuads(b) == Len(b.triCorners) \div 8

\* the cells the scan has already passed, as <<x, y>>
Scanned(b) == {c \in (0..(size - 1)) \X (0..(size - 1)) :
                 c[1] < b.x \/ (c[1] = b.x /\ c[2] < b.y)}

ActiveScanned(s, b) == {c \in Scanned(b) : readMarch(s, size, c[1], c[2], 0) > 0}

\* the 2x2 grid (0,0)=1, (0,1)=-1, (1,0)=1, (1,1)=-1
ScenarioGrid ==
  /\ size = 2
  /\ readMarch(sdf, size, 0, 0, 0) = 1
  /\ readMarch(sdf, size, 0, 1, 0) = -1
  /\ readMarch(sdf, size, 1, 0, 0) = 1
  /\ readMarch(sdf, size, 1, 1, 0) = -1

\* C1: the k-th emitted quad (from 0, in scan order) carries the indices
\* {0,1,2,0,2,3} + 4*k whatever number of inactive cells precede it; on the
\* 2x2 scenario grid two quads are emitted and the second one's base is 4.
C1_IndexBaseAdvancesOnEmission ==
  pc = "building" =>
    /\ \A k \in 0..(EmittedQuads(build) - 1) :
         \A j \in 1..6 :
           build.vertexIndices[6 * k + j] = <<0, 1, 2, 0, 2, 3>>[j] + 4 * k
    /\ (ScenarioGrid /\ BuildDone(build)) =>
         /\ EmittedQuads(build) = 2
         /\ build.vertexIndices[7] = 4

\* C2: every index of the index sequence is below 4 * (quads emitted), so
\* it names a vertex present in the vertex attribute sequences.
C2_IndicesBelowVertexCount ==
  pc = "building" =>
    \A k \in 1..Len(build.vertexIndices) :
      build.vertexIndices[k] < 4 * EmittedQuads(build)

\* C3: the number of quads emitted equals the number of scanned cells with
\* value > 0; a cell with value <= 0 (0 included) adds nothing to the
\* corner, texture-coordinate, center-offset and index sequences.
C3_QuadsEqualActiveCells ==
  pc = "building" =>
    LET a == Cardinality(ActiveScanned(sdf, build))
    IN /\ Len(build.triCorners) = 8 * a
       /\ Len(build.texCoords) = 8 * a
       /\ Len(build.centerOffsets) = 12 * a
       /\ Len(build.vertexIndices) = 6 * a

C3_Witness ==
  /\ pc = "building"
  /\ BuildDone(build)
  /\ \E c \in Cells : sdf[c] = 0
  /\ \E c \in Cells : sdf[c] < 0
  /\ EmittedQuads(build) > 0

----------------------------------------------------------------------------
(* Properties of the gate, the camera and the frame loop *)

Ticked == lastTick.calls # << >>

\* C4: a run of draw() that sees imageIsLoaded false clears nothing, uploads
\* no uniform and issues no draw call; no draw call has been issued at all
\* while the gate is still Loading.
C4_NoDrawWhileLoading ==
  /\ (Ticked /\ ~lastTick.loaded) =>
       CountOps(lastTick.calls, {"clear"} \cup UniformOps \cup DrawOps) = 0
  /\ ~render.imageIsLoaded => ~everDrew

C4_Witness ==
  /\ last = "tick"
  /\ ~lastTick.loaded
  /\ render.lastMouseY # 0

\* C5: a run of draw() that sees the gate Ready issues exactly one draw call.
C5_OneDrawPerReadyTick ==
  (Ticked /\ lastTick.loaded) => CountOps(lastTick.calls, DrawOps) = 1

C5_Witness ==
  /\ last = "tick"
  /\ lastTick.loaded
  /\ render.xRotation # 0

\* C6: imageIsLoaded starts false, becomes true only in a step of the load
\* callback and, once true, stays true in every step.
C6_GateMonotonic ==
  /\ ~render.imageIsLoaded
  /\ [][/\ render.imageIsLoaded => render'.imageIsLoaded
        /\ (~render.imageIsLoaded /\ render'.imageIsLoaded) => last' = "load"]_vars

C6_Witness ==
  /\ render.imageIsLoaded
  /\ lastTick.loaded
  /\ last = "mousemove"

\* C7: after every pointer-move event xRotation lies in [-pi/2.5, pi/2.5].
C7_XRotationClamped ==
  /\ render.xRotation <= XLimit
  /\ render.xRotation >= -XLimit

C7_Witness ==
  /\ last = "mousemove"
  /\ render.xRotation = -XLimit

\* C8: no clamp limits yRotation: every step changes it by exactly
\* -(pageX - lastMouseX)/50, however large the result.
C8_YRotationUnclamped ==
  [][render'.yRotation =
       render.yRotation - (render'.lastMouseX - render.lastMouseX) * PerPixel]_vars

C8_Witness ==
  /\ render.yRotation = -(MaxPage * PageStep * PerPixel)
  /\ render.yRotation < -XLimit

\* C9: every run of draw(), Loading or Ready, requests exactly one next
\* frame, as its last call; while the page runs exactly one request is
\* pending.
C9_AlwaysReschedules ==
  /\ Ticked =>
       /\ lastTick.calls[Len(lastTick.calls)].op = "requestAnimationFrame"
       /\ CountOps(lastTick.calls, {"requestAnimationFrame"}) = 1
  /\ pc = "running" => pendingFrames = 1

C9_Witness ==
  /\ pc = "running"
  /\ last = "tick"
  /\ lastTick.loaded
  /\ pendingFrames = 1

\* C10: while the image has not loaded (failed, or still pending) the gate
\* is Loading, no draw call has been issued, no diagnostic was raised and
\* one frame request is pending; after a failure this never changes and
\* draw() keeps running.
C10_FailedLoadStaysLoading ==
  /\ []((pc = "running" /\ loadState # "loaded") =>
          /\ ~render.imageIsLoaded
          /\ ~everDrew
          /\ alerts = {}
          /\ pendingFrames = 1)
  /\ [](loadState = "failed" =>
          /\ [](loadState = "failed")
          /\ []<>(last = "tick" /\ ~lastTick.loaded))

C10_Witness ==
  /\ loadState = "failed"
  /\ last = "tick"
  /\ ~lastTick.loaded

----------------------------------------------------------------------------
(* Properties settled with the startup, pointer and mesh details *)

Aborted == {"returned", "thrown"}

C12_PointerMoveUpdate ==
  [][last' = "mousemove" =>
       /\ render'.xRotation =
            Max(Min(render.xRotation + (event'[2] - render.lastMouseY) * PerPixel,
                    XLimit), -XLimit)
       /\ render'.yRotation =
            render.yRotation - (event'[1] - render.lastMouseX) * PerPixel
       /\ render'.lastMouseX = event'[1]
       /\ render'.lastMouseY = event'[2]]_vars

C12_Witness ==
  /\ last = "mousemove"
  /\ event = <<PageStep, 0>>
  /\ render.xRotation < 0
  /\ render.xRotation > -XLimit
  /\ render.yRotation = -(PageStep * PerPixel)

\* positions of a step in the record of render()
StepsAt(name) == {k \in 1..Len(setup) : setup[k] = name}

MeshVariants == {"quads", "points"}
MeshOps == {"createVertexIndices", "bufferData", "march"}

\* C13: the mesh is built exactly once, inside render() and before the
\* first draw(); afterwards no step changes the vertex attribute and index
\* sequences or the field, and no run of draw() builds a mesh, fills a
\* buffer or asks the field provider for the field again.
C13_MeshBuiltOnceBeforeFirstTick ==
  /\ []((pc = "running" /\ variant \in MeshVariants) =>
          /\ Cardinality(StepsAt("createVertexIndices")) = 1
          /\ \A k \in StepsAt("createVertexIndices") :
               \A d \in StepsAt("draw") : k < d
          /\ build.i > 0)
  /\ [](Ticked => CountOps(lastTick.calls, MeshOps) = 0)
  /\ [][pc = "running" => (build' = build /\ sdf' = sdf)]_vars

C13_Witness ==
  /\ variant = "points"
  /\ last = "tick"
  /\ lastTick.loaded
  /\ Len(build.vertexIndices) = 6 * size * size

\* the view matrices uploaded by the most recent run of draw()
ViewUploads ==
  {lastTick.calls[k].arg[1] :
     k \in {j \in 1..Len(lastTick.calls) : lastTick.calls[j].op = "uniformMatrix4fv"}}

\* C14: the view matrix depends on (xRotation, yRotation, focusPoint) only
\* and computing it writes no state; with xRotation = 0, yRotation = 0 and
\* focusPoint = (0,0,0) the camera position taken from the translation
\* column is (0, 0.25, 1), looking at the origin with up (0,1,0).
C14_ViewMatrixAtRest ==
  /\ [](createCameraUniform(0, 0, <<0, 0, 0>>) =
          [eye |-> <<0, OrbitHeight, One>>, center |-> <<0, 0, 0>>,
           up |-> <<0, One, 0>>])
  /\ [][(last' = "tick" /\ render.imageIsLoaded /\ variant \in MeshVariants
            /\ render.xRotation = 0 /\ render.yRotation = 0) =>
          ViewUploads' = {[eye |-> <<0, OrbitHeight, One>>,
                           center |-> <<0, 0, 0>>, up |-> <<0, One, 0>>]}]_vars
  /\ [][last' = "tick" => render' = render]_vars

C14_Witness ==
  /\ variant = "quads"
  /\ last = "tick"
  /\ lastTick.loaded
  /\ render.xRotation = 0
  /\ render.yRotation = 0
  /\ loadState = "loaded"

\* in-bounds coordinates <<x, y, z>> of a size^3 field
Box == (0..(size - 1)) \X (0..(size - 1)) \X (0..(size - 1))

\* C15: the sampler reads the element at flat index x + y*size + z*size*size
\* and changes nothing; the in-bounds coordinates map one-to-one onto the
\* indices 0 .. size^3 - 1 of the field, so distinct coordinates get
\* distinct indices.  Seen in the build: the cell being scanned never shares
\* its index with a cell scanned before, and the value a quad carries is the
\* field's element at x + y*size of the cell just scanned.
C15_SamplerIndexing ==
  /\ {readMarchIndex(size, c[1], c[2], c[3]) : c \in Box}
       = 0..(size * size * size - 1)
  /\ Cardinality({readSdfIndex(c[1], c[2], c[3]) : c \in Box}) = Cardinality(Box)
  /\ []((pc = "building" /\ ~BuildDone(build)) =>
          \A c \in Scanned(build) :
            readMarchIndex(size, c[1], c[2], 0)
              # readMarchIndex(size, build.x, build.y, 0))
  /\ [][/\ sdf' = sdf
        /\ Len(build'.centerOffsets) > Len(build.centerOffsets) =>
             build'.centerOffsets[Len(build'.centerOffsets)]
               = Frac(sdf[build.x + build.y * size], zScale)]_vars

C15_Witness ==
  /\ pc = "building"
  /\ BuildDone(build)
  /\ sdf[1] > 0
  /\ sdf[size] <= 0

\* the arguments of the calls of a tick whose operation is in ops
ArgsOf(calls, ops) == {calls[k].arg : k \in {j \in 1..Len(calls) : calls[j].op \in ops}}

\* cells of the field with value > 0
ActiveCells(s) == {c \in Cells : Active(s[c])}

\* C16: a Ready tick of the point-sprite variant draws as many points as the
\* field has active cells, and no more points than the attribute sequences
\* hold vertices (2 numbers per vertex in the corner sequence).
C16_PointCountIsActiveCells ==
  (variant = "points" /\ Ticked /\ lastTick.loaded) =>
    /\ ArgsOf(lastTick.calls, {"drawArrays"}) = {<<Cardinality(ActiveCells(sdf))>>}
    /\ \A a \in ArgsOf(lastTick.calls, {"drawArrays"}) : a[1] <= Len(build.triCorners) \div 2

\* C17: a Ready tick of the indexed-quad variant passes to its one draw call
\* the length of the index sequence built at startup, which is 6 per quad of
\* the mesh; every index the draw reads lies inside the index buffer.
C17_ElementCountIsIndexLength ==
  (variant = "quads" /\ Ticked /\ lastTick.loaded) =>
    /\ ArgsOf(lastTick.calls, DrawOps) = {<<Len(build.vertexIndices)>>}
    /\ CountOps(lastTick.calls, {"drawElements"}) = 1
    /\ Len(build.vertexIndices) = 6 * EmittedQuads(build)
    /\ EmittedQuads(build) = render.numParticles

C17_Witness ==
  /\ variant = "quads"
  /\ last = "tick"
  /\ lastTick.loaded
  /\ Len(build.vertexIndices) = 6 * numParticlesQuads

\* the cells of the field scanned and found active, counted
QuadsDue == Cardinality(ActiveScanned(sdf, build))

\* C18: scanning an active cell (x, y) of value v appends the corner pairs
\* (-1,-1),(1,-1),(1,1),(-1,1), the texture pairs (0,0),(1,0),(1,1),(0,1)
\* and four copies of (x/size, y/size, v/8); scanning an inactive cell
\* appends nothing; with q quads emitted the four sequences have lengths
\* 8q, 8q, 12q and 6q.
C18_QuadContentsAndLengths ==
  /\ [](pc = "building" =>
          LET q == QuadsDue
          IN /\ Len(build.triCorners) = 8 * q
             /\ Len(build.texCoords) = 8 * q
             /\ Len(build.centerOffsets) = 12 * q
             /\ Len(build.vertexIndices) = 6 * q)
  /\ [][LET v == sdf[build.x + build.y * size]
            o == <<<<build.x, size>>, <<build.y, size>>, <<v, 8>>>>
        IN IF v > 0
           THEN /\ build'.triCorners
                     = build.triCorners \o <<-1, -1, 1, -1, 1, 1, -1, 1>>
                /\ build'.texCoords
                     = build.texCoords \o <<0, 0, 1, 0, 1, 1, 0, 1>>
                /\ build'.centerOffsets
                     = build.centerOffsets \o o \o o \o o \o o
           ELSE /\ build'.triCorners = build.triCorners
                /\ build'.texCoords = build.texCoords
                /\ build'.centerOffsets = build.centerOffsets
                /\ build'.vertexIndices = build.vertexIndices]_vars

C18_Witness ==
  /\ pc = "building"
  /\ BuildDone(build)
  /\ QuadsDue = 2
  /\ Len(build.centerOffsets) = 24
  /\ sdf[0] <= 0

\* <<x1, y1>> comes before <<x2, y2>> in the scan
ScanBefore(c, d) == c[1] < d[1] \/ (c[1] = d[1] /\ c[2] < d[2])

\* the cell of the k-th quad of the mesh, read from its center offset
QuadCell(b, k) ==
  <<b.centerOffsets[12 * (k - 1) + 1][1], b.centerOffsets[12 * (k - 1) + 2][1]>>

\* C19: the scan starts at (0,0), moves y first and x when y wraps, ends
\* after size*size cells; the quads of the mesh are those of the active
\* cells scanned, one each, and quad k1 precedes quad k2 exactly when its
\* cell has the smaller x, or the same x and the smaller y.
C19_ScanOrder ==
  /\ pc = "building" => (build.x = 0 /\ build.y = 0)
  /\ [](pc = "building" =>
          /\ build.x \in 0..size
          /\ build.y \in 0..(size - 1)
          /\ BuildDone(build) => (build.x = size /\ build.y = 0)
          /\ LET cell == [k \in 1..EmittedQuads(build) |-> QuadCell(build, k)]
             IN /\ {cell[k] : k \in DOMAIN cell} = ActiveScanned(sdf, build)
                /\ \A k1 \in DOMAIN cell, k2 \in DOMAIN cell :
                     (k1 < k2) <=> ScanBefore(cell[k1], cell[k2]))
  /\ [][/\ build.y + 1 < size => (build'.x = build.x /\ build'.y = build.y + 1)
        /\ build.y + 1 >= size => (build'.x = build.x + 1 /\ build'.y = 0)
        /\ build'.x * size + build'.y = build.x * size + build.y + 1]_vars

C19_Witness ==
  /\ pc = "building"
  /\ BuildDone(build)
  /\ EmittedQuads(build) = 2
  /\ QuadCell(build, 1) = <<0, 1>>
  /\ QuadCell(build, 2) = <<1, 0>>

\* C20: a pointer-move event handled while the gate is Loading changes the
\* camera state exactly as the same event would with the gate Ready, and the
\* first run of draw() that finds the gate Ready computes its view matrix
\* from the rotations accumulated until then.
C20_PointerMovesNotGated ==
  /\ [][(last' = "mousemove" /\ ~render.imageIsLoaded) =>
         /\ render' = [mousemove(onload(render), event'[1], event'[2])
                         EXCEPT !.imageIsLoaded = FALSE]
         /\ render'.lastMouseX = event'[1]
         /\ render'.lastMouseY = event'[2]
         /\ render'.yRotation
              = render.yRotation - (event'[1] - render.lastMouseX) * PerPixel]_vars
  /\ [][(last' = "tick" /\ render.imageIsLoaded /\ ~everDrew) =>
         /\ lastTick'.loaded
         /\ variant = "quads" =>
              ViewUploads' = {createCameraUniform(render.xRotation, render.yRotation,
                                                  <<0, 0, 0>>)}]_vars

C20_Witness ==
  /\ variant = "quads"
  /\ last = "load"
  /\ render.imageIsLoaded
  /\ ~everDrew
  /\ render.xRotation # 0
  /\ render.yRotation # 0

\* the four camera fields of the render record
CameraFields(r) == <<r.xRotation, r.yRotation, r.lastMouseX, r.lastMouseY>>

\* C21: a tick leaves the four camera fields and imageIsLoaded as they
\* were; a pointer-move event leaves imageIsLoaded as it was; the load
\* callback leaves the four camera fields as they were.
C21_SingleWriter ==
  [][/\ last' = "tick" =>
          /\ CameraFields(render') = CameraFields(render)
          /\ render'.imageIsLoaded = render.imageIsLoaded
     /\ last' = "mousemove" => render'.imageIsLoaded = render.imageIsLoaded
     /\ last' = "load" => CameraFields(render') = CameraFields(render)]_vars

C21_Witness ==
  /\ last = "load"
  /\ render.imageIsLoaded
  /\ render.xRotation # 0
  /\ render.yRotation # 0

\* positions of the calls of a tick whose operation is in ops
PosOf(calls, ops) == {k \in 1..Len(calls) : calls[k].op \in ops}

\* C22: a Ready tick clears, binds the program, uploads the view matrix
\* computed from the rotations held at that tick, issues its draw call and
\* requests the next frame, in this order; a pointer-move event handled
\* after the tick changes nothing of what the tick did.
C22_ReadyTickOrder ==
  /\ [][(last' = "tick" /\ render.imageIsLoaded) =>
         \E c \in {lastTick'.calls} :
           \E pc1 \in PosOf(c, {"clear"}), pu \in PosOf(c, {"useProgram"}),
              pd \in PosOf(c, DrawOps) :
             /\ PosOf(c, {"clear"}) = {pc1}
             /\ PosOf(c, {"useProgram"}) = {pu}
             /\ PosOf(c, DrawOps) = {pd}
             /\ PosOf(c, {"requestAnimationFrame"}) = {Len(c)}
             /\ pc1 < pu
             /\ pu < pd
             /\ pd < Len(c)
             /\ variant \in MeshVariants =>
                  \E pm \in PosOf(c, {"uniformMatrix4fv"}) :
                    /\ PosOf(c, {"uniformMatrix4fv"}) = {pm}
                    /\ pu < pm
                    /\ pm < pd
                    /\ c[pm].arg = <<createCameraUniform(render.xRotation,
                                                         render.yRotation,
                                                         render.redFirePos)>>]_vars
  /\ [][last' = "mousemove" => lastTick' = lastTick]_vars

C22_Witness ==
  /\ variant = "quads"
  /\ last = "tick"
  /\ lastTick.loaded
  /\ render.xRotation # 0
  /\ render.yRotation # 0
  /\ ViewUploads # {createCameraUniform(0, 0, <<0, 0, 0>>)}

\* C23: a tick that runs after the load callback sees the gate Ready and
\* issues its draw call, the first such tick included; with ticks scheduled
\* fairly, a completed load leads to drawing.
C23_LoadLeadsToDrawing ==
  /\ [][(last' = "tick" /\ loadState = "loaded") =>
         /\ lastTick'.loaded
         /\ CountOps(lastTick'.calls, DrawOps) = 1
         /\ everDrew']_vars
  /\ (loadState = "loaded") ~> everDrew

C23_Witness ==
  /\ loadState = "loaded"
  /\ last = "tick"
  /\ everDrew
  /\ lastTick.loaded
  /\ pendingFrames = 1

\* C24: while the build is scanning, the cell it samples has x and y in
\* [0, size) and z = 0, and the flat index of that sample lies in
\* [0, size*size), inside the field.
C24_SamplesInBounds ==
  (pc = "building" /\ ~BuildDone(build)) =>
    /\ build.x \in 0..(size - 1)
    /\ build.y \in 0..(size - 1)
    /\ readMarchIndex(size, build.x, build.y, 0) \in 0..(size * size - 1)
    /\ readMarchIndex(size, build.x, build.y, 0) \in DOMAIN sdf

C24_Witness ==
  /\ pc = "building"
  /\ ~BuildDone(build)
  /\ build.x = size - 1
  /\ build.y = size - 1
  /\ readMarchIndex(size, build.x, build.y, 0) = size * size - 1

\* the largest index value a grid of edge n can produce
MaxIndex(n) == 4 * (n * n - 1) + 3

\* the index values of the quad emitted last
LastQuadIndices(b) ==
  {b.vertexIndices[k] : k \in (Len(b.vertexIndices) - 5)..Len(b.vertexIndices)}

\* C25: no index value written by the build exceeds 4*(size*size - 1) + 3,
\* whatever the field; for the grid of 64 x 64 this bound is below 2^16, and
\* the 16-bit copy of the finished index sequence equals the sequence.
C25_IndicesFitSixteenBits ==
  pc = "building" =>
    /\ MaxIndex(gridSize) < Uint16Modulus
    /\ MaxIndex(size) < Uint16Modulus
    /\ Len(build.vertexIndices) > 0 =>
         \A v \in LastQuadIndices(build) : v >= 0 /\ v <= MaxIndex(size)
    /\ BuildDone(build) => Uint16Array(build.vertexIndices) = build.vertexIndices

C25_Witness ==
  /\ pc = "building"
  /\ BuildDone(build)
  /\ Len(build.vertexIndices) > 0
  /\ MaxIndex(size) \in LastQuadIndices(build)
  /\ sdf[0] <= 0

\* C26: after any sequence of pointer-move events, and so at every tick,
\* yRotation is the number -lastMouseX / 50.
C26_YRotationTelescopes ==
  render.yRotation = DoubleDiv(-render.lastMouseX, PixelsPerRadian)

\* C27: the first draw() is the last statement of render(), after the load
\* was started; it sees the gate Loading, issues no draw call and requests
\* one frame; when a tick issues the first draw call, the run of draw()
\* before it was one that did not draw.
C27_FirstTickNeverDraws ==
  /\ [](pc = "running" =>
          /\ setup[Len(setup)] = "draw"
          /\ StepsAt("src") # {}
          /\ \A k \in StepsAt("src") : k < Len(setup))
  /\ [][(last' = "render" /\ pc' = "running") =>
         /\ Ticked'
         /\ ~lastTick'.loaded
         /\ CountOps(lastTick'.calls, DrawOps) = 0
         /\ ~everDrew'
         /\ loadState' = "loading"
         /\ pendingFrames' = 1]_vars
  /\ [][(everDrew' /\ ~everDrew) =>
         /\ last' = "tick"
         /\ Ticked
         /\ ~lastTick.loaded
         /\ CountOps(lastTick.calls, DrawOps) = 0]_vars

C27_Witness ==
  /\ last = "tick"
  /\ everDrew
  /\ lastTick.loaded
  /\ CountOps(lastTick.calls, DrawOps) = 1
  /\ variant = "raymarch"

\* C28: in the variant whose render() starts the image load before it
\* creates the state record, the load callback runs only after render() has
\* finished, so after the record exists; the flag it sets is never cleared.
C28_LoadAfterStateCreation ==
  /\ []((variant = "raymarch2" /\ pc = "running") =>
          /\ StepsAt("src") # {}
          /\ StepsAt("state") # {}
          /\ \A k \in StepsAt("src"), j \in StepsAt("state") : k < j)
  /\ [][last' = "load" =>
         /\ pc = "running"
         /\ StepsAt("state") # {}
         /\ render'.imageIsLoaded]_vars
  /\ [][render.imageIsLoaded => render'.imageIsLoaded]_vars

C28_Witness ==
  /\ variant = "raymarch2"
  /\ last = "load"
  /\ render.imageIsLoaded
  /\ pc = "running"

====
